---- MODULE Spec2Model ----
(***************************************************************************)
(* Health Commander (src/app.py): a Streamlit script that is run top to    *)
(* bottom once per user interaction.  One script run is one step of the    *)
(* model.  The state that survives a run is the Google sheet, the          *)
(* st.session_state entries and the values held by the widgets; `out` is   *)
(* what the last run computed and rendered.                                *)
(*                                                                         *)
(* Dates are day numbers (date - date is a number of days).  A text is a   *)
(* sequence of tokens, so that appending and removing " (Hist)" are real   *)
(* operations on it.  A row keeps the columns the script computes with     *)
(* (Date, Time, Type, Item, Calories); Ex_Type, Duration_Min and           *)
(* Distance_Mi only feed the charts of the Fitness tab.                    *)
(***************************************************************************)
EXTENDS Integers, Sequences, FiniteSets, TLC

VARIABLES
  sheet,          \* the "Logs" worksheet: the header row, then one row per entry
  session_state,  \* st.session_state: offset, view_mode, form_desc, form_cal
  widgets,        \* the values the widgets hold between runs
  pending,        \* st.rerun() was called: the script runs again with no input
  out,            \* what the last script run resolved, computed and rendered
  clicks          \* history: the view mode of the last cycle that showed the
                  \* radio, and the Next / Previous clicks since it changed

vars == <<sheet, session_state, widgets, pending, out, clicks>>

-----------------------------------------------------------------------------
(* Configuration and literals                                              *)

DAILY_BMR == 2400

base_date == 10

TAIL_ROWS == 10

FOOD == "Food (In)"
ALCOHOL == "Alcohol (In)"
EXERCISE == "Exercise (Out)"

NUTRITION == "Nutrition (In)"
ENTRY_MODES == {NUTRITION, EXERCISE}

TODAY == "Today"
WEEK == "Week View"
CUSTOM == "Custom Range"
VIEW_MODES == {TODAY, WEEK, CUSTOM}

HIST == " (Hist)"
SELECT_PROMPT == <<"Select an item...">>

DRINKING == "After Drinking"
SOBER == "After Sober"

STARTER_DB ==
  (<<"Chicken Breast (4oz)">> :> 165) @@ (<<"Rice (1 cup)">> :> 200) @@
  (<<"Eggs (2 large)">> :> 140) @@ (<<"Oatmeal (1 cup)">> :> 150) @@
  (<<"Pizza (1 slice)">> :> 285) @@ (<<"Burger">> :> 500) @@
  (<<"Fries (Medium)">> :> 365) @@ (<<"Salad (Caesar)">> :> 400) @@
  (<<"Salmon (Fillet)">> :> 350) @@ (<<"Pasta (1 cup)">> :> 220) @@
  (<<"Beer (1 pint)">> :> 180) @@ (<<"Wine (Glass)">> :> 125) @@
  (<<"Whiskey (shot)">> :> 105) @@ (<<"Protein Shake">> :> 160) @@
  (<<"Banana">> :> 105) @@ (<<"Apple">> :> 95) @@
  (<<"Avocado (Half)">> :> 160) @@ (<<"Tacos (2 street)">> :> 300)

-----------------------------------------------------------------------------
(* The worksheet                                                           *)

HEADER_ROW == [Date |-> 0, Time |-> "Time", Type |-> "Type", Item |-> <<"Item">>, Calories |-> 0]

NoRow == HEADER_ROW

\* sheet.get_all_records(): row 1 holds the keys, the records are the rows below it.
get_all_records(sh) == IF sh = <<>> THEN <<>> ELSE Tail(sh)

\* sheet.append_row(row_data)
append_row(sh, row) == Append(sh, row)

\* sheet.delete_rows(n): removes the n-th row of the worksheet, rows counted from 1.
delete_rows(sh, n) ==
  IF n \in 1..Len(sh) THEN SubSeq(sh, 1, n - 1) \o SubSeq(sh, n + 1, Len(sh)) ELSE sh

\* The row of the worksheet that holds the record with DataFrame index idx
\* (0-based): one row for the header, and worksheet rows count from 1.
SheetRowOf_off(idx) == idx + 1
SheetRowOf(idx) == idx + 2

\* df.loc[idx] for the 0-based DataFrame index.
Loc(df, idx) == df[idx + 1]

RECURSIVE SumCalories(_)
SumCalories(rows) ==
  IF rows = <<>> THEN 0 ELSE Head(rows).Calories + SumCalories(Tail(rows))

-----------------------------------------------------------------------------
(* Quick-Add (sidebar)                                                     *)

\* hist_df = df[df['Type'].isin(['Food (In)', 'Alcohol (In)'])]
hist_df(df) == SelectSeq(df, LAMBDA r : r.Type \in {FOOD, ALCOHOL})

\* The key a history row is stored under.
HistKey_plain(item) == item
HistKey(item) == Append(item, HIST)

\* for _, row in hist_df.iterrows(): history_items[f"{row['Item']} (Hist)"] = row['Calories']
RECURSIVE history_items(_)
history_items(rows) ==
  IF rows = <<>> THEN <<>>
  ELSE LET n == Len(rows)
       IN (HistKey(rows[n].Item) :> rows[n].Calories) @@ history_items(SubSeq(rows, 1, n - 1))

\* full_db = {**STARTER_DB, **history_items}: on equal keys the history value stays.
full_db(df) == history_items(hist_df(df)) @@ STARTER_DB

\* selected_item.replace(" (Hist)", "")
RemoveHist(text) == SelectSeq(text, LAMBDA t : t # HIST)

\* The value a selectbox returns: the one it holds while it is drawn with the
\* options it held it for, its first option once the options differ (Streamlit
\* identifies a widget without a key by its label and options).
selectbox(held, held_options, options, first) ==
  IF options = held_options THEN held ELSE first

\* ["Select an item..."] + sorted_options; the order on screen decides nothing.
item_options(df) == {SELECT_PROMPT} \cup DOMAIN full_db(df)

\* Lines 87-112: the selected item pre-fills the form defaults.
QuickAdd(ss, w, df) ==
  IF w.entry_mode = NUTRITION /\ w.selected_item # SELECT_PROMPT
  THEN [ss EXCEPT !.form_desc = RemoveHist(w.selected_item),
                  !.form_cal = full_db(df)[w.selected_item]]
  ELSE ss

-----------------------------------------------------------------------------
(* View controls and the date window                                       *)

\* if view_mode != st.session_state.view_mode: offset = 0; view_mode = view_mode
ViewModeChange_keep(ss, vm) == [ss EXCEPT !.view_mode = vm]
ViewModeChange(ss, vm) ==
  IF vm # ss.view_mode THEN [ss EXCEPT !.offset = 0, !.view_mode = vm] ELSE ss

\* timedelta(weeks=offset) in days
WeeksDelta_days(offset) == offset
WeeksDelta(offset) == 7 * offset

\* "Pagination Logic": start_date and end_date of the selected view.
Resolve(vm, offset, start_in, end_in) ==
  IF vm = TODAY
  THEN [start |-> base_date + offset, end |-> base_date + offset]
  ELSE IF vm = WEEK
  THEN [start |-> (base_date + WeeksDelta(offset)) - 6, end |-> base_date + WeeksDelta(offset)]
  ELSE [start |-> start_in, end |-> end_in]

\* The defaults of the two date inputs of Custom Range.
DefaultStart == base_date - 7
DefaultEnd == base_date

\* st.session_state.offset -= 1 / += 1
StepOffset(ss, d) == [ss EXCEPT !.offset = @ + d]

-----------------------------------------------------------------------------
(* Metrics and the daily series                                            *)

\* mask = (df['Date'] >= start_date) & (df['Date'] <= end_date)
mask_open(r, start_date, end_date) == r.Date >= start_date /\ r.Date < end_date
mask(r, start_date, end_date) == r.Date >= start_date /\ r.Date <= end_date

filtered_df(df, start_date, end_date) == SelectSeq(df, LAMBDA r : mask(r, start_date, end_date))

OfTypes(rows, types) == SelectSeq(rows, LAMBDA r : r.Type \in types)

\* num_days = (end_date - start_date).days + 1
num_days_exclusive(start_date, end_date) == end_date - start_date
num_days(start_date, end_date) == (end_date - start_date) + 1

\* net_calories = total_in - total_out
NetCalories(total_in, total_exercise, total_bmr) == total_in - (total_exercise + total_bmr)

\* pd.date_range(start_date, end_date).date: empty when end_date < start_date
all_dates(start_date, end_date) ==
  IF end_date < start_date THEN <<>>
  ELSE [i \in 1..((end_date - start_date) + 1) |-> start_date + (i - 1)]

\* daily_stats = filtered_df.groupby(['Date', 'Type'])['Calories'].sum()
daily_stats(fdf) ==
  [k \in {<<fdf[i].Date, fdf[i].Type>> : i \in DOMAIN fdf} |->
     SumCalories(SelectSeq(fdf, LAMBDA r : r.Date = k[1] /\ r.Type = k[2]))]

\* get_values(type_name): left merge of all_dates with the type's rows, NaN -> 0
get_values(fdf, dates, type_name) ==
  [i \in DOMAIN dates |-> IF <<dates[i], type_name>> \in DOMAIN daily_stats(fdf)
                          THEN daily_stats(fdf)[<<dates[i], type_name>>] ELSE 0]

\* Lines 196-231.
Metrics(df, start_date, end_date) ==
  LET fdf == filtered_df(df, start_date, end_date)
      total_in == SumCalories(OfTypes(fdf, {FOOD, ALCOHOL}))
      total_exercise == SumCalories(OfTypes(fdf, {EXERCISE}))
      nd == num_days(start_date, end_date)
      total_bmr == nd * DAILY_BMR
      dates == all_dates(start_date, end_date)
      y_ex == get_values(fdf, dates, EXERCISE)
  IN [total_in |-> total_in,
      total_exercise |-> total_exercise,
      num_days |-> nd,
      total_bmr |-> total_bmr,
      total_out |-> total_exercise + total_bmr,
      net_calories |-> NetCalories(total_in, total_exercise, total_bmr),
      all_dates |-> dates,
      y_food |-> get_values(fdf, dates, FOOD),
      y_alc |-> get_values(fdf, dates, ALCOHOL),
      y_bmr |-> [i \in DOMAIN dates |-> DAILY_BMR],
      y_ex |-> y_ex,
      y_target |-> [i \in DOMAIN dates |-> (DAILY_BMR + y_ex[i]) - 500]]

NoMetrics == Metrics(<<>>, 1, 0)

-----------------------------------------------------------------------------
(* The "Hangover Effect" (tab 3), over the whole history                   *)

RECURSIVE SortedSeq(_)
SortedSeq(S) ==
  IF S = {} THEN <<>>
  ELSE LET m == CHOOSE x \in S : \A y \in S : x <= y
       IN <<m>> \o SortedSeq(S \ {m})

\* daily_agg = df.groupby('Date').apply(...): one row per date that has records,
\* in date order.
daily_agg(df) ==
  LET ds == SortedSeq({df[i].Date : i \in DOMAIN df})
  IN [i \in DOMAIN ds |->
        [Date |-> ds[i],
         Alcohol_Cals |-> SumCalories(SelectSeq(df, LAMBDA r : r.Date = ds[i] /\ r.Type = ALCOHOL)),
         Exercise_Cals |-> SumCalories(SelectSeq(df, LAMBDA r : r.Date = ds[i] /\ r.Type = EXERCISE))]]

\* daily_agg['Alcohol_Cals'].shift(1).fillna(0): the value of the row above.
Prev_Day_Alcohol(agg, i) == IF i = 1 THEN 0 ELSE agg[i - 1].Alcohol_Cals

\* "After Drinking" if x > 0 else "After Sober"
Condition(x) == IF x > 0 THEN DRINKING ELSE SOBER

hangover(df) ==
  LET agg == daily_agg(df)
  IN [i \in DOMAIN agg |->
        [Date |-> agg[i].Date,
         Exercise_Cals |-> agg[i].Exercise_Cals,
         Prev_Day_Alcohol |-> Prev_Day_Alcohol(agg, i),
         Condition |-> Condition(Prev_Day_Alcohol(agg, i))]]

-----------------------------------------------------------------------------
(* Manage Data                                                             *)

Min(a, b) == IF a <= b THEN a ELSE b

\* last_10 = df.tail(10).sort_index(ascending=False): the DataFrame indexes of the
\* last ten rows, newest first.
last_10(df) == [i \in 1..Min(TAIL_ROWS, Len(df)) |-> Len(df) - i]

\* f"{r['Date']} {r['Time']} - {r['Item']}"
LabelOf(r) == [Date |-> r.Date, Time |-> r.Time, Item |-> r.Item]

\* del_options = {label: idx for idx, r in last_10.iterrows()}: a dict, so a label
\* met again takes the index met last.
RECURSIVE DictOf(_, _)
DictOf(df, idxs) ==
  IF idxs = <<>> THEN <<>>
  ELSE LET n == Len(idxs)
       IN (LabelOf(Loc(df, idxs[n])) :> idxs[n]) @@ DictOf(df, SubSeq(idxs, 1, n - 1))

del_options(df) == DictOf(df, last_10(df))

\* The keys of a dict that the labels were inserted into in this order.
RECURSIVE KeysOf(_)
KeysOf(labels) ==
  IF labels = <<>> THEN <<>>
  ELSE LET n == Len(labels)
           front == KeysOf(SubSeq(labels, 1, n - 1))
       IN IF \E i \in DOMAIN front : front[i] = labels[n] THEN front
          ELSE Append(front, labels[n])

\* list(del_options.keys()): the options of "Select entry to delete:".
del_keys(df) == KeysOf([i \in DOMAIN last_10(df) |-> LabelOf(Loc(df, last_10(df)[i]))])

SeqRange(q) == {q[i] : i \in DOMAIN q}

-----------------------------------------------------------------------------
(* One run of the script                                                   *)

NoOut ==
  [status |-> "init", df |-> <<>>, resolved |-> FALSE, prev_mode |-> TODAY, mode |-> TODAY,
   offset_in |-> 0, offset |-> 0, start |-> 0, end |-> 0, computed |-> FALSE, m |-> NoMetrics,
   hangover |-> <<>>, del_options |-> <<>>, to_del |-> LabelOf(NoRow), del_idx |-> 0 - 1]

\* Lines 194-370 of a run that reached them: the metrics, the daily series, the
\* insights, and the Manage Data expander with its Delete button.
Dashboard(df, w, ss, ck, o, click) ==
  \E m \in {Metrics(df, o.start, o.end)} :
  \E opts \in {del_options(df)} :
  \E keys \in {del_keys(df)} :
  \E to_del \in {selectbox(w.to_del, w.to_del_keys, keys, keys[1])} :
  \E shown \in {[o EXCEPT !.computed = TRUE, !.m = m, !.hangover = hangover(df),
                          !.del_options = opts, !.to_del = to_del, !.status = "metrics"]} :
    /\ session_state' = ss
    /\ clicks' = ck
    /\ widgets' = [w EXCEPT !.to_del = to_del, !.to_del_keys = keys]
    /\ IF click = "delete"
       THEN /\ sheet' = delete_rows(sheet, SheetRowOf(opts[to_del]))
            /\ out' = [shown EXCEPT !.del_idx = opts[to_del], !.status = "deleted"]
            /\ pending' = TRUE
       ELSE /\ sheet' = sheet
            /\ out' = shown
            /\ pending' = FALSE

\* Lines 154-192 of a run that reached them: the radio, the window, the two
\* pagination buttons.  The date inputs exist only in Custom Range: a run in
\* another mode leaves them on their defaults.
ViewControls(df, w1, ss1, click) ==
  \E vm \in {w1.view_mode} :
  \E ss \in {ViewModeChange(ss1, vm)} :
  \E ck \in {IF vm # clicks.mode THEN [mode |-> vm, n |-> 0, p |-> 0] ELSE clicks} :
  \E w \in {IF vm = CUSTOM THEN w1
            ELSE [w1 EXCEPT !.start = DefaultStart, !.end = DefaultEnd]} :
  \E win \in {Resolve(vm, ss.offset, w.start, w.end)} :
  \E o \in {[NoOut EXCEPT !.df = df, !.offset_in = session_state.offset,
                          !.resolved = TRUE, !.prev_mode = clicks.mode, !.mode = vm,
                          !.offset = ss.offset, !.start = win.start, !.end = win.end]} :
    IF vm # CUSTOM /\ click \in {"prev", "next"}
    THEN /\ session_state' = StepOffset(ss, IF click = "prev" THEN 0 - 1 ELSE 1)
         /\ clicks' = IF click = "prev" THEN [ck EXCEPT !.p = @ + 1] ELSE [ck EXCEPT !.n = @ + 1]
         /\ widgets' = w
         /\ out' = [o EXCEPT !.status = "nav"]
         /\ pending' = TRUE
         /\ sheet' = sheet
    ELSE Dashboard(df, w, ss, ck, o, click)

\* The whole script, run with the widgets holding w0, the button `click` pressed
\* ("none" for a run no button started) and `row` submitted by the form.
RunScript(w0, click, row) ==
  \E df \in {get_all_records(sheet)} :
  \E items \in {IF w0.entry_mode = NUTRITION THEN item_options(df) ELSE {}} :
  \E w1 \in {[w0 EXCEPT !.selected_item =
                            selectbox(@, w0.item_options, items, SELECT_PROMPT),
                        !.item_options = items]} :
  \E ss1 \in {QuickAdd(session_state, w1, df)} :
    IF click = "save"
    THEN /\ sheet' = append_row(sheet, row)
         /\ session_state' = [ss1 EXCEPT !.form_desc = <<>>, !.form_cal = 0]
         /\ widgets' = w1
         /\ out' = [NoOut EXCEPT !.df = df, !.offset_in = session_state.offset,
                                 !.status = "saved"]
         /\ pending' = TRUE
         /\ clicks' = clicks
    ELSE IF df = <<>>
    THEN /\ session_state' = ss1
         /\ widgets' = w1
         /\ out' = [NoOut EXCEPT !.df = df, !.offset_in = session_state.offset,
                                 !.status = "empty"]
         /\ pending' = FALSE
         /\ sheet' = sheet
         /\ clicks' = clicks
    ELSE ViewControls(df, w1, ss1, click)

-----------------------------------------------------------------------------
(* The session and the user's interactions                                 *)

\* A new session on an empty log: the session_state defaults of lines 17-27,
\* every widget on its default, and the first run of the script due.
Init ==
  /\ sheet = <<HEADER_ROW>>
  /\ session_state = [offset |-> 0, view_mode |-> TODAY, form_desc |-> <<>>, form_cal |-> 0]
  /\ widgets = [entry_mode |-> NUTRITION, selected_item |-> SELECT_PROMPT, item_options |-> {},
                view_mode |-> TODAY, start |-> DefaultStart, end |-> DefaultEnd,
                to_del |-> LabelOf(NoRow), to_del_keys |-> <<>>]
  /\ pending = TRUE
  /\ out = NoOut
  /\ clicks = [mode |-> TODAY, n |-> 0, p |-> 0]

\* The first run of a session, and the run st.rerun() starts.
Rerun == pending /\ RunScript(widgets, "none", NoRow)

\* st.sidebar.radio("Category:", ...)
SelectEntryMode(em) ==
  /\ ~pending
  /\ em # widgets.entry_mode
  /\ RunScript([widgets EXCEPT !.entry_mode = em], "none", NoRow)

\* st.sidebar.selectbox("Search Common Foods:", ...)
SelectQuickAdd(item) ==
  /\ ~pending
  /\ widgets.entry_mode = NUTRITION
  /\ item \in widgets.item_options
  /\ item # widgets.selected_item
  /\ RunScript([widgets EXCEPT !.selected_item = item], "none", NoRow)

\* The form's 'Save Entry' button; the Type offered follows the Category radio.
SaveEntry(row, max_rows) ==
  /\ ~pending
  /\ Len(get_all_records(sheet)) < max_rows
  /\ ((row.Type = EXERCISE) <=> (widgets.entry_mode = EXERCISE))
  /\ RunScript(widgets, "save", row)

\* st.radio("View Mode:", ...)
SelectViewMode(vm) ==
  /\ ~pending
  /\ out.status = "metrics"
  /\ vm # widgets.view_mode
  /\ RunScript([widgets EXCEPT !.view_mode = vm], "none", NoRow)

\* c_prev.button(prev_label) / c_next.button(next_label)
ClickPrev(max_clicks) ==
  /\ ~pending
  /\ out.status = "metrics" /\ out.mode # CUSTOM
  /\ clicks.p < max_clicks
  /\ RunScript(widgets, "prev", NoRow)

ClickNext(max_clicks) ==
  /\ ~pending
  /\ out.status = "metrics" /\ out.mode # CUSTOM
  /\ clicks.n < max_clicks
  /\ RunScript(widgets, "next", NoRow)

\* c_filter.date_input("Start", ...) / c_filter.date_input("End", ...)
SetStart(d) ==
  /\ ~pending
  /\ out.status = "metrics" /\ out.mode = CUSTOM
  /\ d # widgets.start
  /\ RunScript([widgets EXCEPT !.start = d], "none", NoRow)

SetEnd(d) ==
  /\ ~pending
  /\ out.status = "metrics" /\ out.mode = CUSTOM
  /\ d # widgets.end
  /\ RunScript([widgets EXCEPT !.end = d], "none", NoRow)

\* st.selectbox("Select entry to delete:", ...)
SelectToDel(label) ==
  /\ ~pending
  /\ out.status = "metrics"
  /\ label \in SeqRange(widgets.to_del_keys)
  /\ label # widgets.to_del
  /\ RunScript([widgets EXCEPT !.to_del = label], "none", NoRow)

\* st.button("Delete Entry")
ClickDelete ==
  /\ ~pending
  /\ out.status = "metrics"
  /\ RunScript(widgets, "delete", NoRow)

-----------------------------------------------------------------------------
(* Navigation: one logged entry at most, every view control in use         *)

MaxRowsNav == 1
MaxClicks == 3

NoonTime == "12:00:00"

NavRows == {[Date |-> base_date, Time |-> NoonTime, Type |-> FOOD, Item |-> <<"Burger">>, Calories |-> 500]}

NavDates == {base_date - 9, base_date - 7, base_date - 2, base_date}

NextNav ==
  \/ Rerun
  \/ \E row \in NavRows : SaveEntry(row, MaxRowsNav)
  \/ \E vm \in VIEW_MODES : SelectViewMode(vm)
  \/ ClickPrev(MaxClicks)
  \/ ClickNext(MaxClicks)
  \/ \E d \in NavDates : SetStart(d)
  \/ \E d \in NavDates : SetEnd(d)
  \/ ClickDelete

SpecNav == Init /\ [][NextNav]_vars

-----------------------------------------------------------------------------
(* Aggregation: entries of every type on three days, windows of every mode *)

MaxRowsAgg == 2

AggRows ==
  {[Date |-> d, Time |-> NoonTime, Type |-> t[1], Item |-> <<"Burger">>, Calories |-> t[2]] :
     d \in {base_date - 1, base_date, base_date + 1},
     t \in {<<FOOD, 500>>, <<ALCOHOL, 200>>, <<EXERCISE, 300>>}}

AggStartDates == {base_date - 2, base_date + 2}

NextAgg ==
  \/ Rerun
  \/ \E em \in ENTRY_MODES : SelectEntryMode(em)
  \/ \E row \in AggRows : SaveEntry(row, MaxRowsAgg)
  \/ \E vm \in VIEW_MODES : SelectViewMode(vm)
  \/ \E d \in AggStartDates : SetStart(d)
  \/ ClickDelete

SpecAgg == Init /\ [][NextAgg]_vars

-----------------------------------------------------------------------------
(* The store: a log longer than the ten rows Manage Data offers            *)

MaxRowsStore == 11

StoreRows ==
  {[Date |-> base_date, Time |-> NoonTime, Type |-> FOOD, Item |-> <<"Burger">>, Calories |-> 450],
   [Date |-> base_date, Time |-> NoonTime, Type |-> FOOD, Item |-> <<"Oats">>, Calories |-> 150]}

NextStore ==
  \/ Rerun
  \/ \E row \in StoreRows : SaveEntry(row, MaxRowsStore)
  \/ \E label \in SeqRange(widgets.to_del_keys) : SelectToDel(label)
  \/ ClickDelete

SpecStore == Init /\ [][NextStore]_vars

-----------------------------------------------------------------------------
(* Quick-Add: history entries beside the built-in table                    *)

MaxRowsQuick == 2

QuickRows ==
  {[Date |-> base_date, Time |-> NoonTime, Type |-> FOOD, Item |-> <<"Burger">>, Calories |-> 450],
   [Date |-> base_date, Time |-> NoonTime, Type |-> FOOD, Item |-> <<"Burger">>, Calories |-> 620],
   [Date |-> base_date, Time |-> NoonTime, Type |-> ALCOHOL, Item |-> <<"Oats">>, Calories |-> 150],
   [Date |-> base_date, Time |-> NoonTime, Type |-> ALCOHOL, Item |-> <<"Oats", HIST>>, Calories |-> 90],
   [Date |-> base_date, Time |-> NoonTime, Type |-> EXERCISE, Item |-> <<"Apple">>, Calories |-> 300]}

QuickItems ==
  {SELECT_PROMPT, <<"Burger">>, <<"Apple">>,
   <<"Burger", HIST>>, <<"Oats", HIST>>, <<"Oats", HIST, HIST>>, <<"Apple", HIST>>}

NextQuick ==
  \/ Rerun
  \/ \E em \in ENTRY_MODES : SelectEntryMode(em)
  \/ \E item \in QuickItems : SelectQuickAdd(item)
  \/ \E row \in QuickRows : SaveEntry(row, MaxRowsQuick)
  \/ ClickDelete

SpecQuick == Init /\ [][NextQuick]_vars

-----------------------------------------------------------------------------
(* What the claims speak of, stated on the snapshot of the run             *)

\* The sum of the calories of the records at the positions I.
RECURSIVE SumAt(_, _)
SumAt(df, I) ==
  IF I = {} THEN 0
  ELSE LET i == CHOOSE x \in I : TRUE
       IN df[i].Calories + SumAt(df, I \ {i})

\* The calories logged with a type of `types` on the days lo..hi, both included.
Logged(df, types, lo, hi) ==
  SumAt(df, {i \in DOMAIN df : df[i].Type \in types /\ lo <= df[i].Date /\ df[i].Date <= hi})

\* The run went past the form: it was not cut short by 'Save Entry'.
PastForm == out.status \in {"empty", "nav", "metrics", "deleted"}

\* The position of the last Food or Alcohol record described as `item`, 0 if none.
LastLogged(df, item) ==
  LET I == {i \in DOMAIN df : df[i].Type \in {FOOD, ALCOHOL} /\ df[i].Item = item}
  IN IF I = {} THEN 0 ELSE CHOOSE i \in I : \A j \in I : j <= i

\* `text` with its " (Hist)" tokens left out.
RECURSIVE WithoutHist(_)
WithoutHist(text) ==
  IF text = <<>> THEN <<>>
  ELSE IF Head(text) = HIST THEN WithoutHist(Tail(text))
  ELSE <<Head(text)>> \o WithoutHist(Tail(text))

\* C1: a cycle whose selected view mode differs from the mode of the previous
\* cycle resolves its window with offset 0, whatever the offset was before, and
\* the offset is 0 whenever the mode is Custom Range.
C1_ModeSwitchResetsOffset ==
  /\ (out.resolved /\ out.mode # out.prev_mode) => out.offset = 0
  /\ (out.resolved /\ out.mode = CUSTOM) => out.offset = 0
  /\ session_state.view_mode = CUSTOM => session_state.offset = 0

\* A switch from Today to Week View made while the offset was not 0.
C1_Witness ==
  /\ out.resolved /\ out.prev_mode = TODAY /\ out.mode = WEEK
  /\ out.offset_in # 0 /\ out.offset = 0

\* C2: after n Next and p Previous clicks since the last mode switch the window
\* the metrics are computed for is today + (n - p) days in Today mode, and the 7
\* days ending today + 7 * (n - p) days in Week View; a click moves the offset by
\* exactly 1 and its own run computes no metrics.
C2_WindowFollowsClicks ==
  /\ (out.computed /\ out.mode = TODAY) =>
        /\ out.start = base_date + (clicks.n - clicks.p)
        /\ out.end = out.start
  /\ (out.computed /\ out.mode = WEEK) =>
        /\ out.end = base_date + 7 * (clicks.n - clicks.p)
        /\ out.start = out.end - 6
        /\ out.m.num_days = 7
  /\ out.status = "nav" =>
        /\ ~out.computed
        /\ session_state.offset - out.offset \in {1, 0 - 1}
        /\ session_state.offset = clicks.n - clicks.p

\* Week View, one Next and three Previous clicks: the week ending 14 days ago.
C2_Witness ==
  /\ out.computed /\ out.mode = WEEK
  /\ clicks.n = 1 /\ clicks.p = 3
  /\ out.end = base_date - 14 /\ out.start = base_date - 20

\* C3: in Custom Range an end date before the start date is rejected before any
\* metric is computed.
C3_InvalidRangeRejected ==
  (out.resolved /\ out.mode = CUSTOM /\ out.end < out.start) => ~out.computed

\* C4: net_balance = total_intake - total_exercise_burn - total_basal_burn, the
\* intake being the Food and Alcohol calories dated in [start, end], the exercise
\* burn the Exercise calories dated in it, the basal burn the daily rate times
\* (end - start) + 1 days.
C4_Conservation ==
  out.computed =>
    LET intake == Logged(out.df, {FOOD, ALCOHOL}, out.start, out.end)
        burn == Logged(out.df, {EXERCISE}, out.start, out.end)
        basal == DAILY_BMR * ((out.end - out.start) + 1)
    IN /\ out.m.total_in = intake
       /\ out.m.total_exercise = burn
       /\ out.m.total_bmr = basal
       /\ out.m.net_calories = (intake - burn) - basal

\* Week View with one intake record in the window and one after it.
C4_Witness ==
  /\ out.computed /\ out.mode = WEEK
  /\ out.m.total_in = 500
  /\ \E i \in DOMAIN out.df : out.df[i].Type = ALCOHOL /\ out.df[i].Date > out.end

\* C5: every daily series has (end - start) + 1 entries, one per date from start
\* to end in order, each the sum of its category's calories on that date (0 when
\* the date has none).
C5_SeriesCoversWindow ==
  out.computed =>
    LET n == (out.end - out.start) + 1
    IN /\ Len(out.m.all_dates) = n
       /\ Len(out.m.y_food) = n /\ Len(out.m.y_alc) = n /\ Len(out.m.y_ex) = n
       /\ Len(out.m.y_bmr) = n /\ Len(out.m.y_target) = n
       /\ \A i \in 1..n :
            LET d == out.start + (i - 1)
            IN /\ out.m.all_dates[i] = d
               /\ out.m.y_food[i] = Logged(out.df, {FOOD}, d, d)
               /\ out.m.y_alc[i] = Logged(out.df, {ALCOHOL}, d, d)
               /\ out.m.y_ex[i] = Logged(out.df, {EXERCISE}, d, d)

\* C6 as stated: with an empty history the run still computes the metrics of its
\* window: 0 intake, 0 exercise, the basal burn of its n days and its negative
\* as net balance, and n zero-filled entries.
C6_EmptyHistoryAggregates ==
  (PastForm /\ out.df = <<>>) =>
    /\ out.computed
    /\ out.m.num_days >= 1
    /\ out.m.total_in = 0 /\ out.m.total_exercise = 0
    /\ out.m.total_bmr = DAILY_BMR * out.m.num_days
    /\ out.m.net_calories = 0 - out.m.total_bmr
    /\ Len(out.m.y_food) = out.m.num_days

\* C6 amended: with an empty history the run stops at the empty-data guard and
\* computes nothing; with a history none of whose records is dated in a window
\* of n >= 1 days, the metrics are 0 intake, 0 exercise, basal burn rate * n, net
\* balance -rate * n, and n zero-filled entries.
C6_EmptyGuardThenZeroFill ==
  /\ (PastForm /\ out.df = <<>>) =>
        out.status = "empty" /\ ~out.resolved /\ ~out.computed
  /\ LET n == (out.end - out.start) + 1
     IN (/\ out.computed
         /\ n >= 1
         /\ \A i \in DOMAIN out.df : out.df[i].Date < out.start \/ out.df[i].Date > out.end) =>
           /\ out.m.total_in = 0 /\ out.m.total_exercise = 0
           /\ out.m.total_bmr = DAILY_BMR * n
           /\ out.m.net_calories = 0 - DAILY_BMR * n
           /\ Len(out.m.all_dates) = n
           /\ \A s \in {out.m.y_food, out.m.y_alc, out.m.y_ex} :
                Len(s) = n /\ \A i \in 1..n : s[i] = 0
           /\ \A i \in 1..n : out.m.y_bmr[i] = DAILY_BMR /\ out.m.y_target[i] = DAILY_BMR - 500

\* A three-day custom window with the only records dated after it.
C6_Witness ==
  /\ out.computed /\ out.mode = CUSTOM
  /\ out.start = base_date - 2 /\ out.end = base_date
  /\ out.df # <<>> /\ \A i \in DOMAIN out.df : out.df[i].Date > out.end
  /\ out.m.total_bmr = 7200 /\ out.m.net_calories = 0 - 7200 /\ Len(out.m.y_food) = 3

\* C7: a delete at index k of a snapshot of N records leaves the N - 1 other
\* records in their order, and the cycle that follows works on that reloaded
\* snapshot.
C7_DeleteByPosition ==
  /\ out.status = "deleted" =>
        LET N == Len(out.df)
            k == out.del_idx
        IN /\ pending
           /\ k \in 0..(N - 1)
           /\ Tail(sheet) = [i \in 1..(N - 1) |-> IF i <= k THEN out.df[i] ELSE out.df[i + 1]]
  /\ (~pending) => out.df = Tail(sheet)

\* A delete in the middle of an eleven-record snapshot.
C7_Witness ==
  /\ out.status = "deleted"
  /\ Len(out.df) = 11 /\ out.del_idx = 5 /\ Len(sheet) = 11

\* C8: a date with records is in the post-drinking cohort exactly when the
\* calendar day before it has alcohol calories.
C8_PreviousCalendarDay ==
  out.computed =>
    /\ {out.hangover[i].Date : i \in DOMAIN out.hangover} = {out.df[i].Date : i \in DOMAIN out.df}
    /\ \A i \in DOMAIN out.hangover :
         LET d == out.hangover[i].Date
         IN (out.hangover[i].Condition = DRINKING) <=> (Logged(out.df, {ALCOHOL}, d - 1, d - 1) > 0)

\* C9 as stated: selecting a built-in name that the history also holds pre-fills
\* the calories last logged for it.
C9_HistoryOverridesBuiltin ==
  (/\ PastForm
   /\ widgets.entry_mode = NUTRITION
   /\ widgets.selected_item \in DOMAIN STARTER_DB
   /\ LastLogged(out.df, widgets.selected_item) # 0) =>
     session_state.form_cal = out.df[LastLogged(out.df, widgets.selected_item)].Calories

\* C9 amended: a history entry is offered under its description followed by
\* " (Hist)", beside the built-in names: selecting that label pre-fills the
\* calories last logged for the description, and the description less every
\* " (Hist)" in it; selecting a built-in name pre-fills the built-in value,
\* logged or not.
C9_HistoryBesideBuiltin ==
  (/\ PastForm
   /\ widgets.entry_mode = NUTRITION
   /\ widgets.selected_item # SELECT_PROMPT) =>
     LET sel == widgets.selected_item
     IN IF sel \in DOMAIN STARTER_DB
        THEN /\ session_state.form_cal = STARTER_DB[sel]
             /\ session_state.form_desc = sel
        ELSE /\ Len(sel) >= 1 /\ sel[Len(sel)] = HIST
             /\ LET item == SubSeq(sel, 1, Len(sel) - 1)
                IN /\ LastLogged(out.df, item) # 0
                   /\ session_state.form_cal = out.df[LastLogged(out.df, item)].Calories
                   /\ session_state.form_desc = WithoutHist(item)

\* "Burger" logged twice, 450 and then 620; "Burger (Hist)" selected.
C9_Witness ==
  /\ PastForm
  /\ widgets.selected_item = <<"Burger", HIST>>
  /\ Len(out.df) = 2 /\ out.df[1].Calories = 450 /\ out.df[2].Calories = 620
  /\ out.df[1].Item = <<"Burger">> /\ out.df[2].Item = <<"Burger">>
  /\ session_state.form_cal = 620 /\ session_state.form_desc = <<"Burger">>

\* C10: each of the last ten records of the snapshot is offered for deletion,
\* and the index deleted for an offered label is that of the record shown.
C10_EveryRecentRecordSelectable ==
  out.computed =>
    LET N == Len(out.df)
        recent == {i \in 0..(N - 1) : i >= N - TAIL_ROWS}
    IN \A idx \in recent :
         \E label \in DOMAIN out.del_options : out.del_options[label] = idx

====
